---- MODULE Spec2Model ----
(***************************************************************************)
(* Crochet Counter: the project state and synchronisation engine of        *)
(* app.js together with the IndexedDB wrapper of db.js.                    *)
(*                                                                         *)
(* Encoding of JavaScript values                                           *)
(*   - a wall-clock sample Date.now() is a positive integer; every handler *)
(*     reads the clock once and receives the sample as its parameter t;    *)
(*   - a project id `project-${t}` is the integer t, null is NullId = 0;   *)
(*   - a counter id `counter-${t}` is the integer t, 'main' is MainId = 0; *)
(*   - a counter target is <<>> for null and <<n>> for the number n;       *)
(*   - appState.activeProject = null is the record NoProject;              *)
(*   - a missing (undefined) or zero timer.lastTick is 0, which is falsy.  *)
(***************************************************************************)
EXTENDS Integers, Sequences, FiniteSets, TLC

VARIABLES
    activeProject,       \* appState.activeProject
    savedProjects,       \* appState.savedProjects (cached project list)
    activeIdx,           \* index of the savedProjects entry that is the same object as activeProject, 0 if none
    isDirty,             \* appState.isDirty
    activeModal,         \* appState.activeModal
    confirmationContext, \* appState.confirmationContext (its onConfirm continuation)
    setTargetContext,    \* appState.setTargetContext (its onSet continuation)
    toast,               \* appState.toast
    lastProjectId,       \* localStorage 'lastProjectId'
    lastProjectUnsaved,  \* localStorage 'lastProjectUnsaved'
    store,               \* the IndexedDB object store 'projects'
    pending,             \* IndexedDB requests issued and not yet completed, oldest first
    lastOp,              \* history variable: the handler that ran last, its arguments and the state it started from
    issued               \* history variable: the number of IndexedDB requests issued so far, counted up to MaxRequests

vars == <<activeProject, savedProjects, activeIdx, isDirty, activeModal, confirmationContext,
          setTargetContext, toast, lastProjectId, lastProjectUnsaved, store, pending, lastOp,
          issued>>

----------------------------------------------------------------------------
(* Bounds of the model *)

MaxTime == 2
MaxValue == 2
MaxSubs == 1
MaxElapsed == 2
MaxRequests == 3

\* Clock samples of the running session; the stored projects of earlier
\* sessions carry the earlier sample StoredTime.
StoredTime == 3
Times == (StoredTime + 1)..(StoredTime + MaxTime)

----------------------------------------------------------------------------
(* Values *)

NullId == 0
MainId == 0
NoTarget == <<>>
NoProject == [null |-> TRUE]
NoToast == [message |-> "", type |-> "info", visible |-> FALSE]
NoContext == [action |-> "none", id |-> 0]

Min(S) == CHOOSE x \in S : \A y \in S : x <= y

\* String.prototype.trim on the project names of the model
Trim(s) == IF s \in {"", " "} THEN "" ELSE s

createDefaultProject(t) ==
    [ id |-> NullId,
      name |-> "New Project",
      lastModified |-> t,
      timer |-> [totalElapsedMs |-> 0, isPaused |-> FALSE, lastTick |-> t],
      mainCounter |-> [id |-> MainId, name |-> "Row", value |-> 0, target |-> NoTarget],
      subCounters |-> <<>>,
      incrementHistory |-> <<>>,
      notes |-> "",
      patternUrl |-> "" ]

\* findCounter returns a reference to a counter object: 1 is project.mainCounter,
\* k + 1 is project.subCounters[k], 0 is null / undefined.
findCounter(p, counterId) ==
    IF p = NoProject THEN 0
    ELSE IF counterId = MainId THEN 1
    ELSE LET hits == {i \in 1..Len(p.subCounters) : p.subCounters[i].id = counterId}
         IN  IF hits = {} THEN 0 ELSE 1 + Min(hits)

counterAt(p, ref) == IF ref = 1 THEN p.mainCounter ELSE p.subCounters[ref - 1]

setCounter(p, ref, c) ==
    IF ref = 1 THEN [p EXCEPT !.mainCounter = c]
    ELSE [p EXCEPT !.subCounters[ref - 1] = c]

Counters(p) == <<p.mainCounter>> \o p.subCounters

Max(S) == CHOOSE x \in S : \A y \in S : x >= y

RemoveAt(s, i) == SubSeq(s, 1, i - 1) \o SubSeq(s, i + 1, Len(s))

Toast(message, type) == [message |-> message, type |-> type, visible |-> TRUE]

Op(name, arg) == [op |-> name, arg |-> arg, pre |-> activeProject, preDirty |-> isDirty]

----------------------------------------------------------------------------
(* The active project object *)

\* An assignment to a field of the active project object.  After
\* setActiveProject(savedProjects[k]) the active project and the list entry
\* are one object, so the entry changes with it until the list is refetched.
Mutate(p) ==
    /\ activeProject' = p
    /\ savedProjects' = IF activeIdx = 0 THEN savedProjects
                        ELSE [savedProjects EXCEPT ![activeIdx] = p]
    /\ UNCHANGED activeIdx

\* setActiveProject: the new active object (with lastTick resampled when its
\* timer runs), the dirty flag and the two localStorage entries.
resampleTimer_KeepsLastTick(project, t) == project

resampleTimer(project, t) ==
    IF ~project.timer.isPaused THEN [project EXCEPT !.timer.lastTick = t] ELSE project

setActiveProject(project, t) ==
    /\ activeProject' = resampleTimer(project, t)
    /\ isDirty' = FALSE
    /\ lastProjectId' = project.id
    /\ lastProjectUnsaved' = (project.id = NullId)

markDirty(dirty) == IF dirty THEN dirty ELSE TRUE

----------------------------------------------------------------------------
(* Persistence: saveActiveProject up to its first await *)

PutRequest(project, isSilent) == [kind |-> "put", project |-> project, isSilent |-> isSilent]
GetAllRequest(cont, id) == [kind |-> "getAll", cont |-> cont, id |-> id]
DeleteRequest(id) == [kind |-> "delete", id |-> id]

\* The synchronous part of a handler is described by its effects: the active
\* project object as it leaves it, the IndexedDB requests it issues, the toast
\* and the dirty flag.  Apply makes them the next state.
Effects(project, requests, newToast, dirty) ==
    [project |-> project, requests |-> requests, toast |-> newToast, isDirty |-> dirty]

Issue(n) == issued' = IF issued + n > MaxRequests THEN MaxRequests ELSE issued + n

Apply(e) ==
    /\ Mutate(e.project)
    /\ pending' = pending \o e.requests
    /\ Issue(Len(e.requests))
    /\ toast' = e.toast
    /\ isDirty' = e.isDirty

\* p is the active project as the caller left it, dirty the flag as the caller
\* left it.  db.saveProject clones the object into the put request in the
\* microtasks that follow the handler, so the request carries the project as
\* it is at the end of the handler.
\* saveActiveProject with the write issued twice
saveActiveProject_PutTwice(p, isSilent, t, dirty) ==
    IF Trim(p.name) = ""
    THEN Effects(p, <<>>, Toast("Project name cannot be empty.", "error"), dirty)
    ELSE LET p1 == [p EXCEPT !.id = IF p.id = NullId THEN t ELSE p.id,
                             !.lastModified = t]
         IN  Effects(p1, <<PutRequest(p1, isSilent), PutRequest(p1, isSilent)>>, toast, dirty)

\* saveActiveProject with the id assigned before the name is validated
saveActiveProject_IdBeforeValidation(p, isSilent, t, dirty) ==
    LET p1 == [p EXCEPT !.id = IF p.id = NullId THEN t ELSE p.id, !.lastModified = t]
    IN  IF Trim(p.name) = ""
        THEN Effects(p1, <<>>, Toast("Project name cannot be empty.", "error"), dirty)
        ELSE Effects(p1, <<PutRequest(p1, isSilent)>>, toast, dirty)

saveActiveProject(p, isSilent, t, dirty) ==
    IF Trim(p.name) = ""
    THEN Effects(p, <<>>, Toast("Project name cannot be empty.", "error"), dirty)
    ELSE LET p1 == [p EXCEPT !.id = IF p.id = NullId THEN t ELSE p.id,
                             !.lastModified = t]
         IN  Effects(p1, <<PutRequest(p1, isSilent)>>, toast, dirty)

\* updateAndSave that leaves the dirty flag alone
updateAndSave_NeverMarksDirty(p1, t) ==
    LET p2 == [p1 EXCEPT !.lastModified = t]
    IN  IF p2.id = NullId
        THEN Effects(p2, <<>>, toast, isDirty)
        ELSE saveActiveProject(p2, TRUE, t, isDirty)

\* p1 is the active project after modificationFn() has run.
updateAndSave(p1, t) ==
    LET p2 == [p1 EXCEPT !.lastModified = t]
    IN  IF p2.id = NullId
        THEN Effects(p2, <<>>, toast, markDirty(isDirty))
        ELSE saveActiveProject(p2, TRUE, t, isDirty)

updateProjectProperty(prop, value, t) ==
    LET p1 == [activeProject EXCEPT ![prop] = value, !.lastModified = t]
        dirty == markDirty(isDirty)
    IN  IF p1.id # NullId
        THEN saveActiveProject(p1, TRUE, t, dirty)
        ELSE Effects(p1, <<>>, toast, dirty)

updateCounterProperty(counterId, prop, value, t) ==
    LET ref == findCounter(activeProject, counterId)
    IN  IF ref = 0 THEN Effects(activeProject, <<>>, toast, isDirty)
        ELSE LET c == counterAt(activeProject, ref)
                 p1 == [setCounter(activeProject, ref, [c EXCEPT ![prop] = value])
                           EXCEPT !.lastModified = t]
             IN  IF prop = "name"
                 THEN IF p1.id = NullId
                      THEN Effects(p1, <<>>, toast, markDirty(isDirty))
                      ELSE Effects(p1, <<>>, toast, isDirty)
                 ELSE IF p1.id # NullId
                      THEN saveActiveProject(p1, TRUE, t, isDirty)
                      ELSE Effects(p1, <<>>, toast, markDirty(isDirty))

----------------------------------------------------------------------------
(* Counter actions: the modification functions handed to updateAndSave *)

\* incrementCounterFn with the push outside the test of the counter
incrementCounterFn_AlwaysRecords(p, counterId, t) ==
    LET ref == findCounter(p, counterId)
        q == IF ref # 0
             THEN setCounter(p, ref, [counterAt(p, ref) EXCEPT !.value = @ + 1])
             ELSE p
    IN  [q EXCEPT !.incrementHistory =
            Append(@, [counterId |-> counterId, timestamp |-> t])]

incrementCounterFn(p, counterId, t) ==
    LET ref == findCounter(p, counterId)
    IN  IF ref # 0
        THEN LET c == counterAt(p, ref)
                 q == setCounter(p, ref, [c EXCEPT !.value = c.value + 1])
             IN  [q EXCEPT !.incrementHistory =
                      Append(@, [counterId |-> counterId, timestamp |-> t])]
        ELSE p

\* decrementCounterFn without the test counter.value > 0
decrementCounterFn_NoFloor(p, counterId) ==
    LET ref == findCounter(p, counterId)
    IN  IF ref # 0
        THEN LET c == counterAt(p, ref)
                 q == setCounter(p, ref, [c EXCEPT !.value = c.value - 1])
                 history == p.incrementHistory
                 hits == {i \in 1..Len(history) : history[i].counterId = counterId}
             IN  IF hits = {} THEN q
                 ELSE [q EXCEPT !.incrementHistory = RemoveAt(history, Max(hits))]
        ELSE p

\* decrementCounterFn without the removal of a history entry
decrementCounterFn_KeepHistory(p, counterId) ==
    LET ref == findCounter(p, counterId)
    IN  IF ref # 0 /\ counterAt(p, ref).value > 0
        THEN setCounter(p, ref, [counterAt(p, ref) EXCEPT !.value = @ - 1])
        ELSE p

\* decrementCounterFn with the loop over the history running forwards
decrementCounterFn_FirstEntry(p, counterId) ==
    LET ref == findCounter(p, counterId)
    IN  IF ref # 0 /\ counterAt(p, ref).value > 0
        THEN LET c == counterAt(p, ref)
                 q == setCounter(p, ref, [c EXCEPT !.value = c.value - 1])
                 history == p.incrementHistory
                 hits == {i \in 1..Len(history) : history[i].counterId = counterId}
             IN  IF hits = {} THEN q
                 ELSE [q EXCEPT !.incrementHistory = RemoveAt(history, Min(hits))]
        ELSE p

decrementCounterFn(p, counterId) ==
    LET ref == findCounter(p, counterId)
    IN  IF ref # 0 /\ counterAt(p, ref).value > 0
        THEN LET c == counterAt(p, ref)
                 q == setCounter(p, ref, [c EXCEPT !.value = c.value - 1])
                 history == p.incrementHistory
                 hits == {i \in 1..Len(history) : history[i].counterId = counterId}
             IN  IF hits = {} THEN q
                 ELSE [q EXCEPT !.incrementHistory = RemoveAt(history, Max(hits))]
        ELSE p

\* resetCounterFn without the filter of the history
resetCounterFn_KeepHistory(p, counterId) ==
    LET ref == findCounter(p, counterId)
    IN  IF ref # 0
        THEN setCounter(p, ref, [counterAt(p, ref) EXCEPT !.value = 0])
        ELSE p

resetCounterFn(p, counterId) ==
    LET ref == findCounter(p, counterId)
    IN  IF ref # 0
        THEN LET c == counterAt(p, ref)
                 q == setCounter(p, ref, [c EXCEPT !.value = 0])
             IN  [q EXCEPT !.incrementHistory =
                      SelectSeq(@, LAMBDA h : h.counterId # counterId)]
        ELSE p

addSubCounterFn(p, t) ==
    [p EXCEPT !.subCounters =
        Append(@, [id |-> t, name |-> "New Counter", value |-> 0, target |-> NoTarget])]

\* deleteSubCounterFn without the filter of the history
deleteSubCounterFn_KeepHistory(p, counterId) ==
    [p EXCEPT !.subCounters = SelectSeq(@, LAMBDA c : c.id # counterId)]

deleteSubCounterFn(p, counterId) ==
    [p EXCEPT !.subCounters = SelectSeq(@, LAMBDA c : c.id # counterId),
              !.incrementHistory = SelectSeq(@, LAMBDA h : h.counterId # counterId)]

\* toggleTimerPause that keeps lastTick when the timer is resumed
toggleTimerPauseFn_KeepsLastTick(p, t) ==
    [p EXCEPT !.timer.isPaused = ~p.timer.isPaused]

toggleTimerPauseFn(p, t) ==
    LET paused == ~p.timer.isPaused
    IN  [p EXCEPT !.timer.isPaused = paused,
                  !.timer.lastTick = IF ~paused THEN t ELSE @]

----------------------------------------------------------------------------
(* User intents: the event handlers *)

EngineVars == <<activeProject, savedProjects, activeIdx, isDirty, pending, toast, issued>>
UiVars == <<activeModal, confirmationContext, setTargetContext>>
EnvVars == <<lastProjectId, lastProjectUnsaved, store>>

\* updateAndSave(modificationFn) as a handler; modified is the project after
\* modificationFn().  Without an active project the handler returns at once.
incrementCounter(counterId, t) ==
    /\ lastOp' = Op("incrementCounter", counterId)
    /\ IF activeProject = NoProject THEN UNCHANGED EngineVars
       ELSE Apply(updateAndSave(incrementCounterFn(activeProject, counterId, t), t))
    /\ UNCHANGED <<UiVars, EnvVars>>

decrementCounter(counterId, t) ==
    /\ lastOp' = Op("decrementCounter", counterId)
    /\ IF activeProject = NoProject THEN UNCHANGED EngineVars
       ELSE Apply(updateAndSave(decrementCounterFn(activeProject, counterId), t))
    /\ UNCHANGED <<UiVars, EnvVars>>

resetCounter(counterId, t) ==
    /\ lastOp' = Op("resetCounter", counterId)
    /\ IF activeProject = NoProject THEN UNCHANGED EngineVars
       ELSE Apply(updateAndSave(resetCounterFn(activeProject, counterId), t))
    /\ UNCHANGED <<UiVars, EnvVars>>

addSubCounter(t) ==
    /\ lastOp' = Op("addSubCounter", t)
    /\ IF activeProject = NoProject THEN UNCHANGED EngineVars
       ELSE Apply(updateAndSave(addSubCounterFn(activeProject, t), t))
    /\ UNCHANGED <<UiVars, EnvVars>>

toggleTimerPause(t) ==
    /\ lastOp' = Op("toggleTimerPause", t)
    /\ IF activeProject = NoProject THEN UNCHANGED EngineVars
       ELSE Apply(updateAndSave(toggleTimerPauseFn(activeProject, t), t))
    /\ UNCHANGED <<UiVars, EnvVars>>

\* the periodic tick of startProjectTimer, at the clock sample now
updateTimerFn(timer, now) ==
    LET elapsedSinceLastTick == now - (IF timer.lastTick # 0 THEN timer.lastTick ELSE now)
    IN  [timer EXCEPT !.totalElapsedMs = @ + elapsedSinceLastTick, !.lastTick = now]

updateTimer(now) ==
    /\ lastOp' = Op("updateTimer", now)
    /\ IF activeProject = NoProject \/ activeProject.timer.isPaused
       THEN UNCHANGED <<activeProject, savedProjects, activeIdx>>
       ELSE Mutate([activeProject EXCEPT !.timer = updateTimerFn(@, now)])
    /\ UNCHANGED <<isDirty, pending, toast, issued, UiVars, EnvVars>>

\* input events of the project name, notes and pattern URL fields
projectInput(prop, value, t) ==
    /\ lastOp' = Op("updateProjectProperty", prop)
    /\ IF activeProject = NoProject THEN UNCHANGED EngineVars
       ELSE Apply(updateProjectProperty(prop, value, t))
    /\ UNCHANGED <<UiVars, EnvVars>>

\* click on 'save-project'; without an active project project.name throws
saveProjectClick(t) ==
    /\ lastOp' = Op("saveActiveProject", t)
    /\ IF activeProject = NoProject THEN UNCHANGED EngineVars
       ELSE Apply(saveActiveProject(activeProject, FALSE, t, isDirty))
    /\ UNCHANGED <<UiVars, EnvVars>>

\* parseInt of the text of a number field: NaN or an integer <<n>>
NaN == <<>>
Truthy(target) == target # NoTarget /\ target[1] # 0
OrNull(parsed) == IF parsed = NaN \/ parsed[1] = 0 THEN NoTarget ELSE parsed

\* handleAppInput: a counter's name field changes at once, its target field
\* on blur.  The target field is rendered only for a target > 0.
handleAppInput(counterId, property, text, t) ==
    /\ lastOp' = Op("updateCounterProperty", <<counterId, property>>)
    /\ IF activeProject = NoProject THEN UNCHANGED EngineVars
       ELSE Apply(updateCounterProperty(counterId, property,
                     IF property = "target" THEN OrNull(text) ELSE text, t))
    /\ UNCHANGED <<UiVars, EnvVars>>

\* click on 'toggle-target'
toggleTarget(counterId, t) ==
    /\ lastOp' = Op("toggleTarget", counterId)
    /\ LET ref == findCounter(activeProject, counterId)
       IN  IF ref = 0 THEN UNCHANGED <<EngineVars, UiVars>>
           ELSE LET c == counterAt(activeProject, ref)
                IN  IF Truthy(c.target)
                    THEN /\ Apply(updateAndSave(
                                setCounter(activeProject, ref, [c EXCEPT !.target = NoTarget]), t))
                         /\ UNCHANGED UiVars
                    ELSE /\ setTargetContext' = [counterId |-> counterId,
                                                 currentValue |-> c.value + 10,
                                                 ref |-> ref]
                         /\ activeModal' = "setTarget"
                         /\ UNCHANGED <<EngineVars, confirmationContext>>
    /\ UNCHANGED EnvVars

\* onSet captured the counter object counterToTarget; ref is that object
handleSetTargetProceed(newTargetValue, t) ==
    /\ lastOp' = Op("handleSetTargetProceed", newTargetValue)
    /\ IF newTargetValue = NaN \/ newTargetValue[1] < 0
       THEN /\ toast' = Toast("Please enter a valid positive number for the target.", "error")
            /\ UNCHANGED <<activeProject, savedProjects, activeIdx, isDirty, pending, issued, activeModal>>
       ELSE /\ LET ref == setTargetContext.ref
                   c == counterAt(activeProject, ref)
               IN  Apply(updateAndSave(
                       setCounter(activeProject, ref, [c EXCEPT !.target = newTargetValue]), t))
            /\ activeModal' = "none"
    /\ UNCHANGED <<confirmationContext, setTargetContext, EnvVars>>

closeModal ==
    /\ lastOp' = Op("closeModal", 0)
    /\ activeModal' = "none"
    /\ UNCHANGED <<EngineVars, confirmationContext, setTargetContext, EnvVars>>

showConfirmation(context) ==
    /\ confirmationContext' = context
    /\ activeModal' = "confirm"

\* click on 'delete-sub-counter'
deleteSubCounterClick(counterId) ==
    /\ lastOp' = Op("showConfirmation", counterId)
    /\ showConfirmation([action |-> "deleteSubCounter", id |-> counterId])
    /\ UNCHANGED <<EngineVars, setTargetContext, EnvVars>>

\* the onConfirm continuation of 'delete-sub-counter'
deleteSubCounter(counterId, t) ==
    IF activeProject = NoProject
    THEN Effects(activeProject, <<>>, Toast("Sub-counter deleted.", "success"), isDirty)
    ELSE [updateAndSave(deleteSubCounterFn(activeProject, counterId), t)
            EXCEPT !.toast = Toast("Sub-counter deleted.", "success")]

\* setActiveProject(list[idx]) and setActiveProject(createDefaultProject())
\* with list as the cached project list
ActivateSaved(list, idx, t) ==
    /\ setActiveProject(list[idx], t)
    /\ savedProjects' = [list EXCEPT ![idx] = resampleTimer(list[idx], t)]
    /\ activeIdx' = idx

ActivateDefault(list, t) ==
    /\ setActiveProject(createDefaultProject(t), t)
    /\ savedProjects' = list
    /\ activeIdx' = 0

\* Array.prototype.find by id: the index of the first match, 0 for undefined
FindProject(list, projectId) ==
    LET hits == {i \in 1..Len(list) : list[i].id = projectId}
    IN  IF hits = {} THEN 0 ELSE Min(hits)

\* performLoadProject without its closeModal()
performLoadProject(projectId, t) ==
    IF FindProject(savedProjects, projectId) # 0
    THEN ActivateSaved(savedProjects, FindProject(savedProjects, projectId), t)
    ELSE UNCHANGED <<activeProject, savedProjects, activeIdx, isDirty, lastProjectId, lastProjectUnsaved>>

\* handleProjectDeletion up to its first await: the delete request is issued
handleProjectDeletion(projectId) ==
    /\ pending' = Append(pending, DeleteRequest(projectId))
    /\ Issue(1)
    /\ UNCHANGED <<activeProject, savedProjects, activeIdx, isDirty, toast, lastProjectId, lastProjectUnsaved>>

\* click on 'toggle-projects'
toggleProjects ==
    /\ lastOp' = Op("showModal", "projects")
    /\ activeModal' = "projects"
    /\ UNCHANGED <<EngineVars, confirmationContext, setTargetContext, EnvVars>>

\* loadProject without the test of appState.isDirty
loadProject_NoDirtyTest(projectId, t) ==
    /\ lastOp' = Op("loadProject", projectId)
    /\ performLoadProject(projectId, t)
    /\ activeModal' = IF FindProject(savedProjects, projectId) # 0 THEN "none" ELSE activeModal
    /\ UNCHANGED confirmationContext
    /\ UNCHANGED <<pending, toast, issued, setTargetContext, store>>

\* click on 'load-project' in the projects list
loadProject(projectId, t) ==
    /\ lastOp' = Op("loadProject", projectId)
    /\ IF isDirty
       THEN /\ showConfirmation([action |-> "loadProject", id |-> projectId])
            /\ UNCHANGED <<activeProject, savedProjects, activeIdx, isDirty, lastProjectId, lastProjectUnsaved>>
       ELSE /\ performLoadProject(projectId, t)
            /\ activeModal' = IF FindProject(savedProjects, projectId) # 0 THEN "none" ELSE activeModal
            /\ UNCHANGED confirmationContext
    /\ UNCHANGED <<pending, toast, issued, setTargetContext, store>>

\* click on 'start-new-project'
startNewProject(t) ==
    /\ lastOp' = Op("startNewProject", t)
    /\ IF isDirty
       THEN /\ showConfirmation([action |-> "startNewProject", id |-> NullId])
            /\ UNCHANGED <<activeProject, savedProjects, activeIdx, isDirty, lastProjectId, lastProjectUnsaved>>
       ELSE /\ ActivateDefault(savedProjects, t)
            /\ activeModal' = "none"
            /\ UNCHANGED confirmationContext
    /\ UNCHANGED <<pending, toast, issued, setTargetContext, store>>

\* click on 'delete-project-current'; without an active project
\* appState.activeProject.id throws
deleteProjectCurrent(t) ==
    /\ lastOp' = Op("deleteProjectCurrent", t)
    /\ IF activeProject = NoProject
       THEN UNCHANGED <<activeProject, savedProjects, activeIdx, isDirty, toast,
                        lastProjectId, lastProjectUnsaved, activeModal, confirmationContext>>
       ELSE IF activeProject.id = NullId
       THEN /\ ActivateDefault(savedProjects, t)
            /\ toast' = Toast("Project reset to default state.", "info")
            /\ UNCHANGED <<activeModal, confirmationContext>>
       ELSE /\ showConfirmation([action |-> "deleteProjectCurrent", id |-> NullId])
            /\ UNCHANGED <<activeProject, savedProjects, activeIdx, isDirty, toast,
                           lastProjectId, lastProjectUnsaved>>
    /\ UNCHANGED <<pending, issued, setTargetContext, store>>

\* deleteProjectClick that issues the delete request without waiting for
\* the dialog
deleteProjectClick_DeletesAtOnce(projectId) ==
    /\ lastOp' = Op("showConfirmation", projectId)
    /\ showConfirmation([action |-> "deleteProject", id |-> projectId])
    /\ handleProjectDeletion(projectId)
    /\ UNCHANGED <<setTargetContext, store>>

\* click on 'delete-project' in the projects list
deleteProjectClick(projectId) ==
    /\ lastOp' = Op("showConfirmation", projectId)
    /\ showConfirmation([action |-> "deleteProject", id |-> projectId])
    /\ UNCHANGED <<EngineVars, setTargetContext, EnvVars>>

\* click on 'confirm-proceed': onConfirm(), then closeModal()
handleConfirmationProceed(t) ==
    /\ lastOp' = Op("handleConfirmationProceed", confirmationContext)
    /\ activeModal' = "none"
    /\ IF confirmationContext.action = "deleteSubCounter"
       THEN /\ Apply(deleteSubCounter(confirmationContext.id, t))
            /\ UNCHANGED <<lastProjectId, lastProjectUnsaved>>
       ELSE IF confirmationContext.action = "deleteProject"
       THEN handleProjectDeletion(confirmationContext.id)
       ELSE IF confirmationContext.action = "deleteProjectCurrent"
       THEN handleProjectDeletion(activeProject.id)
       ELSE IF confirmationContext.action = "loadProject"
       THEN /\ performLoadProject(confirmationContext.id, t)
            /\ UNCHANGED <<pending, toast, issued>>
       ELSE IF confirmationContext.action = "startNewProject"
       THEN /\ ActivateDefault(savedProjects, t)
            /\ UNCHANGED <<pending, toast, issued>>
       ELSE UNCHANGED <<EngineVars, lastProjectId, lastProjectUnsaved>>
    /\ UNCHANGED <<confirmationContext, setTargetContext, store>>

\* the setTimeout of showToast
hideToast ==
    /\ toast.visible
    /\ lastOp' = Op("hideToast", 0)
    /\ toast' = [toast EXCEPT !.visible = FALSE]
    /\ UNCHANGED <<activeProject, savedProjects, activeIdx, isDirty, pending, issued, UiVars, EnvVars>>

----------------------------------------------------------------------------
(* db.js: the IndexedDB requests.  Transactions on the one object store run *)
(* in the order in which they were created, so the oldest pending request   *)
(* completes first, with success or with an error.                          *)

\* store.put: insert or replace by the key path 'id'
\* saveProject with store.add in place of store.put: a stored record stays
saveProject_KeepsStored(st, projectObject) ==
    IF \E q \in st : q.id = projectObject.id THEN st ELSE st \cup {projectObject}

saveProject(st, projectObject) ==
    {q \in st : q.id # projectObject.id} \cup {projectObject}

\* store.delete
deleteProject(st, projectId) == {q \in st : q.id # projectId}

\* index.getAll() yields the records by lastModified, then by key; the stable
\* sort then puts the newest first.
RECURSIVE SortNewestFirst(_)
SortNewestFirst(S) ==
    IF S = {} THEN <<>>
    ELSE LET m == CHOOSE x \in S : \A y \in S :
                      \/ x.lastModified > y.lastModified
                      \/ (x.lastModified = y.lastModified /\ x.id <= y.id)
         IN  <<m>> \o SortNewestFirst(S \ {m})

\* getAllProjects without the sort: the records in index order, oldest first
getAllProjects_IndexOrder(st) ==
    [i \in 1..Cardinality(st) |-> SortNewestFirst(st)[Cardinality(st) + 1 - i]]

getAllProjects(st) == SortNewestFirst(st)

\* saveActiveProject after `await saveProject(project)` has resolved
putSucceeds ==
    /\ pending # <<>> /\ Head(pending).kind = "put"
    /\ lastOp' = Op("putSucceeds", Head(pending).project.id)
    /\ store' = saveProject(store, Head(pending).project)
    /\ isDirty' = FALSE
    /\ toast' = IF ~Head(pending).isSilent THEN Toast("Project saved!", "success") ELSE toast
    /\ pending' = Append(Tail(pending), GetAllRequest("save", Head(pending).project.id))
    /\ Issue(1)
    /\ UNCHANGED <<activeProject, savedProjects, activeIdx, UiVars, lastProjectId, lastProjectUnsaved>>

\* putFails that issues the rejected put again
putFails_Retries ==
    /\ pending # <<>> /\ Head(pending).kind = "put"
    /\ lastOp' = Op("putFails", Head(pending).project.id)
    /\ toast' = Toast("Error saving project.", "error")
    /\ pending' = Append(Tail(pending), Head(pending))
    /\ UNCHANGED <<activeProject, savedProjects, activeIdx, isDirty, issued, UiVars, EnvVars>>

\* putFails with the dirty flag set by the catch block
putFails_MarksDirty ==
    /\ pending # <<>> /\ Head(pending).kind = "put"
    /\ lastOp' = Op("putFails", Head(pending).project.id)
    /\ toast' = Toast("Error saving project.", "error")
    /\ pending' = Tail(pending)
    /\ isDirty' = TRUE
    /\ UNCHANGED <<activeProject, savedProjects, activeIdx, issued, UiVars, EnvVars>>

\* saveActiveProject when `await saveProject(project)` has rejected
putFails ==
    /\ pending # <<>> /\ Head(pending).kind = "put"
    /\ lastOp' = Op("putFails", Head(pending).project.id)
    /\ toast' = Toast("Error saving project.", "error")
    /\ pending' = Tail(pending)
    /\ UNCHANGED <<activeProject, savedProjects, activeIdx, isDirty, issued, UiVars, EnvVars>>

\* loadInitialProject that opens the newest saved project when the last
\* project was unsaved
loadInitialProject_NewestWhenUnsaved(list, t) ==
    IF lastProjectUnsaved
    THEN IF Len(list) > 0 THEN ActivateSaved(list, 1, t) ELSE ActivateDefault(list, t)
    ELSE IF lastProjectId # NullId /\ FindProject(list, lastProjectId) # 0
         THEN ActivateSaved(list, FindProject(list, lastProjectId), t)
         ELSE ActivateDefault(list, t)

\* loadInitialProject after `await fetchSavedProjects()`
loadInitialProject(list, t) ==
    IF lastProjectUnsaved THEN ActivateDefault(list, t)
    ELSE IF lastProjectId # NullId
         THEN IF FindProject(list, lastProjectId) # 0
              THEN ActivateSaved(list, FindProject(list, lastProjectId), t)
              ELSE ActivateDefault(list, t)
         ELSE ActivateDefault(list, t)

\* handleProjectDeletion after `await fetchSavedProjects()`
\* afterProjectDeletion without the comparison of the ids
afterProjectDeletion_AlwaysActivates(list, projectId, t) ==
    IF Len(list) > 0 THEN ActivateSaved(list, 1, t) ELSE ActivateDefault(list, t)

afterProjectDeletion(list, projectId, t) ==
    IF activeProject # NoProject /\ activeProject.id = projectId
    THEN IF Len(list) > 0 THEN ActivateSaved(list, 1, t) ELSE ActivateDefault(list, t)
    ELSE /\ savedProjects' = list
         /\ activeIdx' = 0
         /\ UNCHANGED <<activeProject, isDirty, lastProjectId, lastProjectUnsaved>>

\* handleProjectDeletion after `await deleteProject(projectId)` has resolved
deleteSucceeds ==
    /\ pending # <<>> /\ Head(pending).kind = "delete"
    /\ lastOp' = Op("deleteSucceeds", Head(pending).id)
    /\ store' = deleteProject(store, Head(pending).id)
    /\ pending' = Append(Tail(pending), GetAllRequest("delete", Head(pending).id))
    /\ Issue(1)
    /\ UNCHANGED <<activeProject, savedProjects, activeIdx, isDirty, toast, UiVars,
                   lastProjectId, lastProjectUnsaved>>

\* `await deleteProject(projectId)` has rejected: handleProjectDeletion ends
\* with the rejection, which nothing catches
deleteFails ==
    /\ pending # <<>> /\ Head(pending).kind = "delete"
    /\ lastOp' = Op("deleteFails", Head(pending).id)
    /\ pending' = Tail(pending)
    /\ UNCHANGED <<activeProject, savedProjects, activeIdx, isDirty, toast, issued, UiVars, EnvVars>>

\* fetchSavedProjects resolves: the continuation of its caller runs
getAllSucceeds(t) ==
    /\ pending # <<>> /\ Head(pending).kind = "getAll"
    /\ lastOp' = Op("getAllSucceeds", Head(pending).cont)
    /\ pending' = Tail(pending)
    /\ IF Head(pending).cont = "initial"
       THEN /\ loadInitialProject(getAllProjects(store), t)
            /\ UNCHANGED toast
       ELSE IF Head(pending).cont = "delete"
       THEN /\ afterProjectDeletion(getAllProjects(store), Head(pending).id, t)
            /\ toast' = Toast("Project deleted.", "success")
       ELSE /\ savedProjects' = getAllProjects(store)
            /\ activeIdx' = 0
            /\ UNCHANGED <<activeProject, isDirty, toast, lastProjectId, lastProjectUnsaved>>
    /\ UNCHANGED <<UiVars, store, issued>>

\* fetchSavedProjects rejects: inside saveActiveProject the catch block shows
\* the error toast, loadInitialProject and handleProjectDeletion end with the
\* rejection
getAllFails ==
    /\ pending # <<>> /\ Head(pending).kind = "getAll"
    /\ lastOp' = Op("getAllFails", Head(pending).cont)
    /\ pending' = Tail(pending)
    /\ toast' = IF Head(pending).cont = "save" THEN Toast("Error saving project.", "error") ELSE toast
    /\ UNCHANGED <<activeProject, savedProjects, activeIdx, isDirty, issued, UiVars, EnvVars>>

----------------------------------------------------------------------------
(* The state after init(): no active project yet, loadInitialProject waits  *)
(* for fetchSavedProjects; the store and localStorage are those left by     *)
(* earlier sessions.                                                        *)

StoredProject ==
    [createDefaultProject(StoredTime) EXCEPT
        !.id = StoredTime,
        !.name = "Scarf",
        !.mainCounter.value = 1,
        !.incrementHistory = <<[counterId |-> MainId, timestamp |-> StoredTime]>>]

InitStores == {{}, {StoredProject}}

\* appState as the page load leaves it, loadInitialProject waiting
InitMemory ==
    /\ activeProject = NoProject
    /\ savedProjects = <<>>
    /\ activeIdx = 0
    /\ isDirty = FALSE
    /\ activeModal = "none"
    /\ confirmationContext = NoContext
    /\ setTargetContext = [counterId |-> MainId, currentValue |-> 0, ref |-> 0]
    /\ toast = NoToast
    /\ pending = <<GetAllRequest("initial", NullId)>>
    /\ lastOp = [op |-> "init", arg |-> 0, pre |-> NoProject, preDirty |-> FALSE]
    /\ issued = 1

Init ==
    /\ InitMemory
    /\ store \in InitStores
    /\ \E ls \in {<<NullId, FALSE>>, <<NullId, TRUE>>, <<StoredTime, FALSE>>} :
          lastProjectId = ls[1] /\ lastProjectUnsaved = ls[2]

\* the page is loaded again: appState starts afresh, the object store and
\* localStorage are those the last page left
restart ==
    /\ activeProject' = NoProject
    /\ savedProjects' = <<>>
    /\ activeIdx' = 0
    /\ isDirty' = FALSE
    /\ activeModal' = "none"
    /\ confirmationContext' = NoContext
    /\ setTargetContext' = [counterId |-> MainId, currentValue |-> 0, ref |-> 0]
    /\ toast' = NoToast
    /\ pending' = <<GetAllRequest("initial", NullId)>>
    /\ lastOp' = Op("restart", 0)
    /\ issued' = 1
    /\ UNCHANGED EnvVars

----------------------------------------------------------------------------
(* Inputs of the handlers *)

CounterIds == {MainId} \cup Times

ValueOf(counterId) ==
    LET ref == findCounter(activeProject, counterId)
    IN  IF ref = 0 THEN 0 ELSE counterAt(activeProject, ref).value

\* a clock that does not run backwards: no sample is earlier than the last
\* stamp of the active project
Later(t) == IF activeProject = NoProject THEN TRUE ELSE t >= activeProject.lastModified

\* the page behind an open dialog takes no input
NoModal == activeModal = "none"

----------------------------------------------------------------------------
(* SpecCounter: the counters and the increment history of the active        *)
(* project, ephemeral or persisted, under a forward-running clock.  A       *)
(* handler that may issue a request runs while fewer than CounterPending    *)
(* requests are pending; the requests succeed (SpecSync has the failures).  *)

CounterPending == 1

CounterRoom == Len(pending) < CounterPending

CounterCalls ==
    \E t \in Times, counterId \in CounterIds :
        /\ Later(t)
        /\ \/ ValueOf(counterId) < MaxValue /\ incrementCounter(counterId, t)
           \/ decrementCounter(counterId, t)
           \/ resetCounter(counterId, t)

SubCounterCalls ==
    \/ \E t \in Times :
          /\ Later(t)
          /\ activeProject # NoProject
          /\ Len(activeProject.subCounters) < MaxSubs
          /\ addSubCounter(t)
    \/ \E counterId \in CounterIds :
          findCounter(activeProject, counterId) > 1 /\ deleteSubCounterClick(counterId)

ConfirmDialog ==
    \/ CounterRoom /\ \E t \in Times : Later(t) /\ handleConfirmationProceed(t)
    \/ closeModal

NextCounter ==
    \/ NoModal /\ CounterRoom /\ CounterCalls
    \/ NoModal /\ CounterRoom /\ SubCounterCalls
    \/ activeModal = "confirm" /\ ConfirmDialog
    \/ NoModal /\ CounterRoom /\ \E t \in Times : Later(t) /\ saveProjectClick(t)
    \/ putSucceeds
    \/ \E t \in Times : Later(t) /\ getAllSucceeds(t)

SpecCounter == Init /\ [][NextCounter]_vars

----------------------------------------------------------------------------
(* SpecSync: every kind of mutation, on ephemeral and persisted projects,   *)
(* with the explicit save and with writes and reads that succeed or fail,   *)
(* on projects that are at most MaxEdits edits away from a fresh one, in    *)
(* sessions of at most MaxRequests IndexedDB requests.                      *)

MaxEdits == 2

RECURSIVE SumValues(_)
SumValues(cs) ==
    IF cs = <<>> THEN 0
    ELSE Head(cs).value + (IF Head(cs).target # NoTarget THEN 1 ELSE 0) + SumValues(Tail(cs))

\* the number of edits that lead from a fresh project to p
Edits(p) ==
    IF p = NoProject THEN 0
    ELSE SumValues(Counters(p)) + Len(p.subCounters)
         + (IF p.timer.isPaused THEN 1 ELSE 0)
         + (IF p.notes # "" THEN 1 ELSE 0)
         + (IF p.patternUrl # "" THEN 1 ELSE 0)

\* a handler that may issue a request runs while fewer than MaxRequests
\* requests have been issued
Room == issued < MaxRequests
MayEdit == NoModal /\ Room /\ Edits(activeProject) < MaxEdits

NameInputs == {" ", "Scarf"}
TextInputs == {"", "wool"}
DialogInputs == {NaN, <<0>>, <<1>>}
FieldInputs == {NaN, <<0 - 1>>, <<2>>}

SyncCounterCalls ==
    \E t \in Times, counterId \in CounterIds :
        /\ Later(t)
        /\ \/ MayEdit /\ incrementCounter(counterId, t)
           \/ decrementCounter(counterId, t)

SyncTimerCalls == \E t \in Times : Later(t) /\ toggleTimerPause(t)

SyncProjectInputs ==
    \E t \in Times :
        /\ Later(t)
        /\ \/ \E value \in NameInputs : projectInput("name", value, t)
           \/ \E value \in TextInputs : (value # "" => MayEdit) /\ projectInput("notes", value, t)

NextSync ==
    \/ NoModal /\ Room /\ activeProject # NoProject /\ SyncCounterCalls
    \/ NoModal /\ Room /\ activeProject # NoProject /\ SyncTimerCalls
    \/ NoModal /\ Room /\ activeProject # NoProject /\ SyncProjectInputs
    \/ NoModal /\ Room /\ \E t \in Times : Later(t) /\ saveProjectClick(t)
    \/ putSucceeds
    \/ putFails
    \/ \E t \in Times : Later(t) /\ getAllSucceeds(t)
    \/ getAllFails

SpecSync == Init /\ [][NextSync]_vars

----------------------------------------------------------------------------
(* Properties of the dirty flag and of the writes in flight (SpecSync) *)

Persisted == activeProject # NoProject /\ activeProject.id # NullId

\* C2: no step taken while the active project is persisted sets the dirty
\* flag: isDirty never goes from false to true on a project with an id.
C2_PersistedNeverMarkedDirty ==
    [][(Persisted /\ ~isDirty) => ~isDirty']_vars

\* the same for every handler but the input handler of the project fields
C2_OnlyProjectInputMarksDirty ==
    [][(Persisted /\ ~isDirty /\ lastOp'.op # "updateProjectProperty") => ~isDirty']_vars

\* the put requests in flight for the project with this id
PutsInFlight(id) ==
    SelectSeq(pending, LAMBDA r : r.kind = "put" /\ r.project.id = id)

ProjectIds == {StoredTime} \cup Times

\* C3 as stated: at most one put for a given project is in flight.
C3_AtMostOnePutInFlight ==
    \A id \in ProjectIds : Len(PutsInFlight(id)) <= 1

\* C3, amended: every handler issues at most one put, and the put carries the
\* active project as the handler leaves it; it does not wait for the puts
\* already in flight.
C3_OnePutPerHandler ==
    [][\A id \in ProjectIds :
          LET before == Len(PutsInFlight(id))
              after == Len(PutsInFlight(id)')
          IN  /\ after <= before + 1
              /\ after = before + 1 =>
                    /\ PutsInFlight(id)'[after].project = activeProject'
                    /\ pending' = Append(pending, PutsInFlight(id)'[after])]_vars

\* two puts of one project in flight, the second with the later mutation
C3_Witness ==
    /\ Len(pending) = 2
    /\ pending[1].kind = "put" /\ pending[2].kind = "put"
    /\ pending[1].project.id = pending[2].project.id
    /\ pending[1].project # pending[2].project
    /\ pending[2].project = activeProject
    /\ lastOp.pre.id # NullId

\* the put requests among the pending requests
Puts(reqs) == SelectSeq(reqs, LAMBDA r : r.kind = "put")

SyncHandlers ==
    {"saveActiveProject", "updateProjectProperty", "incrementCounter", "decrementCounter",
     "toggleTimerPause"}

\* C12: saveActiveProject on a project whose name is empty or blank assigns
\* no id, issues no request and leaves the project and the dirty flag as
\* they are; no handler that leaves the name blank issues a put or assigns
\* an id.
C12_BlankNameIsNotSaved ==
    [][/\ (lastOp'.op = "saveActiveProject" /\ activeProject # NoProject
              /\ Trim(activeProject.name) = "")
           => (activeProject' = activeProject /\ isDirty' = isDirty
                 /\ pending' = pending /\ store' = store)
       /\ (lastOp'.op \in SyncHandlers /\ activeProject # NoProject
              /\ Trim(activeProject'.name) = "")
           => (activeProject'.id = activeProject.id /\ Puts(pending') = Puts(pending))
      ]_vars

C12_Witness ==
    /\ lastOp.op = "saveActiveProject"
    /\ lastOp.pre # NoProject /\ Trim(lastOp.pre.name) = ""
    /\ activeProject = lastOp.pre /\ activeProject.id = NullId
    /\ toast = Toast("Project name cannot be empty.", "error")

\* C18: when the put of a save, silent or explicit, fails, the error toast is
\* shown and the active project, the dirty flag, the cached list and the
\* store are what they were.
C18_FailedSaveRollsNothingBack ==
    [][lastOp'.op = "putFails"
          => (/\ toast' = Toast("Error saving project.", "error")
              /\ activeProject' = activeProject /\ isDirty' = isDirty
              /\ savedProjects' = savedProjects /\ store' = store)]_vars

C18_Witness ==
    /\ lastOp.op = "putFails"
    /\ toast = Toast("Error saving project.", "error")
    /\ activeProject = lastOp.pre /\ activeProject.mainCounter.value > 0
    /\ isDirty /\ store = {}

----------------------------------------------------------------------------
(* The projects of the store.  Earlier sessions left up to three projects.  *)
(* A handler that issues a request runs while fewer than MaxInFlight        *)
(* requests are pending; the main counter counts up to MaxValue.            *)

MaxInFlight == 2

\* two projects older than StoredProject; Hat was created first and
\* modified last
HatProject ==
    [createDefaultProject(StoredTime - 2) EXCEPT
        !.id = StoredTime - 2, !.name = "Hat", !.lastModified = StoredTime]

SockProject ==
    [createDefaultProject(StoredTime - 1) EXCEPT
        !.id = StoredTime - 1, !.name = "Sock"]

StoredIds == {StoredTime - 2, StoredTime - 1, StoredTime}

MayIssue == Len(pending) < MaxInFlight
Listed == activeModal = "projects"
Asked == activeModal = "confirm"

CountRow ==
    \E t \in Times :
        /\ Later(t) /\ NoModal /\ activeProject # NoProject
        /\ MayIssue /\ ValueOf(MainId) < MaxValue
        /\ incrementCounter(MainId, t)

DeleteCurrent ==
    \E t \in Times : Later(t) /\ NoModal /\ activeProject # NoProject /\ deleteProjectCurrent(t)

OpenList == NoModal /\ activeProject # NoProject /\ toggleProjects

DeleteListed ==
    \E projectId \in StoredIds \cup Times :
        Listed /\ FindProject(savedProjects, projectId) # 0 /\ deleteProjectClick(projectId)

LoadListed ==
    \E t \in Times, projectId \in StoredIds \cup Times :
        /\ Later(t) /\ Listed
        /\ FindProject(savedProjects, projectId) # 0
        /\ loadProject(projectId, t)

StartNew == \E t \in Times : Later(t) /\ Listed /\ startNewProject(t)

Proceed == \E t \in Times : Later(t) /\ Asked /\ MayIssue /\ handleConfirmationProceed(t)

Cancel == ~NoModal /\ closeModal

----------------------------------------------------------------------------
(* SpecDelete: the last session left StoredProject active, alone in the     *)
(* store or with two older projects.  The current project is deleted while  *)
(* rows are counted; a delete request succeeds or fails.                    *)

DeleteStores == {{StoredProject}, {StoredProject, HatProject, SockProject}}

InitDelete ==
    /\ InitMemory
    /\ store \in DeleteStores
    /\ lastProjectId = StoredTime
    /\ lastProjectUnsaved = FALSE

NextDelete ==
    \/ CountRow
    \/ DeleteCurrent
    \/ Proceed
    \/ Cancel
    \/ putSucceeds
    \/ deleteSucceeds
    \/ deleteFails
    \/ \E t \in Times : Later(t) /\ getAllSucceeds(t)

SpecDelete == InitDelete /\ [][NextDelete]_vars


----------------------------------------------------------------------------
(* SpecDialog: the last session left StoredProject or an unsaved project    *)
(* active.  Rows are counted, projects are loaded, started and deleted,     *)
(* and the confirmation dialogs are accepted or closed; the requests        *)
(* succeed.                                                                 *)

InitDialog ==
    /\ InitMemory
    /\ store = {StoredProject}
    /\ \E ls \in {<<NullId, TRUE>>, <<StoredTime, FALSE>>} :
          lastProjectId = ls[1] /\ lastProjectUnsaved = ls[2]

NextDialog ==
    \/ CountRow
    \/ DeleteCurrent
    \/ OpenList
    \/ LoadListed
    \/ StartNew
    \/ DeleteListed
    \/ Proceed
    \/ Cancel
    \/ putSucceeds
    \/ deleteSucceeds
    \/ \E t \in Times : Later(t) /\ getAllSucceeds(t)

SpecDialog == InitDialog /\ [][NextDialog]_vars

----------------------------------------------------------------------------
(* SpecAutosave: the last session left StoredProject active.  Every kind    *)
(* of mutation command is applied to it, on projects at most MaxEdits       *)
(* edits away from a fresh one, a counter being renamed once, while fewer   *)
(* than CounterPending requests are pending; the requests succeed.          *)

NewCounterName == "Round"

InitAutosave ==
    /\ InitMemory
    /\ store = {StoredProject}
    /\ lastProjectId = StoredTime
    /\ lastProjectUnsaved = FALSE

AutosaveReady == NoModal /\ CounterRoom /\ activeProject # NoProject

AutosaveCounters ==
    \E t \in Times, counterId \in CounterIds :
        /\ Later(t) /\ AutosaveReady
        /\ \/ Edits(activeProject) < MaxEdits /\ incrementCounter(counterId, t)
           \/ decrementCounter(counterId, t)
           \/ resetCounter(counterId, t)

AutosaveSubCounters ==
    \/ \E t \in Times :
          /\ Later(t) /\ AutosaveReady
          /\ Edits(activeProject) < MaxEdits
          /\ Len(activeProject.subCounters) < MaxSubs
          /\ addSubCounter(t)
    \/ \E counterId \in CounterIds :
          /\ AutosaveReady
          /\ findCounter(activeProject, counterId) > 1
          /\ deleteSubCounterClick(counterId)

AutosaveTarget ==
    \E t \in Times, counterId \in CounterIds, text \in FieldInputs :
        /\ Later(t) /\ AutosaveReady
        /\ Edits(activeProject) < MaxEdits
        /\ handleAppInput(counterId, "target", text, t)

AutosaveRename ==
    \E t \in Times, counterId \in CounterIds :
        /\ Later(t) /\ AutosaveReady
        /\ findCounter(activeProject, counterId) # 0
        /\ counterAt(activeProject, findCounter(activeProject, counterId)).name # NewCounterName
        /\ handleAppInput(counterId, "name", NewCounterName, t)

AutosavePause ==
    \E t \in Times :
        /\ Later(t) /\ AutosaveReady
        /\ Edits(activeProject) < MaxEdits \/ activeProject.timer.isPaused
        /\ toggleTimerPause(t)

AutosaveNotes ==
    \E t \in Times, value \in TextInputs :
        /\ Later(t) /\ AutosaveReady
        /\ value # "" => Edits(activeProject) < MaxEdits
        /\ projectInput("notes", value, t)

NextAutosave ==
    \/ AutosaveCounters
    \/ AutosaveSubCounters
    \/ AutosaveTarget
    \/ AutosaveRename
    \/ AutosavePause
    \/ AutosaveNotes
    \/ Proceed
    \/ Cancel
    \/ putSucceeds
    \/ \E t \in Times : Later(t) /\ getAllSucceeds(t)

SpecAutosave == InitAutosave /\ [][NextAutosave]_vars

----------------------------------------------------------------------------
(* SpecRestart: sessions that count rows and save the project, each ended   *)
(* by a reload of the page once no request is pending; the requests         *)
(* succeed.  A new project is saved while the store holds fewer than        *)
(* MaxStored projects.                                                      *)

MaxStored == 2

SaveProject ==
    \E t \in Times :
        /\ Later(t) /\ NoModal /\ activeProject # NoProject
        /\ MayIssue
        /\ activeProject.id = NullId => Cardinality(store) < MaxStored
        /\ saveProjectClick(t)

Restart == activeProject # NoProject /\ pending = <<>> /\ restart

NextRestart ==
    \/ CountRow
    \/ SaveProject
    \/ Restart
    \/ putSucceeds
    \/ \E t \in Times : Later(t) /\ getAllSucceeds(t)

SpecRestart == Init /\ [][NextRestart]_vars

----------------------------------------------------------------------------
(* SpecSubCounters: up to MaxAdded sub-counters are added to the active     *)
(* project, counted and deleted, two clicks being possible at one clock     *)
(* value; the requests succeed.                                             *)

MaxAdded == 2

AddSubCounter ==
    \E t \in Times :
        /\ Later(t) /\ NoModal /\ MayIssue /\ activeProject # NoProject
        /\ Len(activeProject.subCounters) < MaxAdded
        /\ addSubCounter(t)

CountSubCounter ==
    \E t \in Times, counterId \in Times :
        /\ Later(t) /\ NoModal /\ MayIssue
        /\ findCounter(activeProject, counterId) # 0
        /\ ValueOf(counterId) < MaxValue
        /\ incrementCounter(counterId, t)

DeleteSubCounter ==
    \E counterId \in Times :
        /\ NoModal
        /\ findCounter(activeProject, counterId) # 0
        /\ deleteSubCounterClick(counterId)

NextSubCounters ==
    \/ AddSubCounter
    \/ CountSubCounter
    \/ DeleteSubCounter
    \/ Proceed
    \/ Cancel
    \/ putSucceeds
    \/ \E t \in Times : Later(t) /\ getAllSucceeds(t)

SpecSubCounters == Init /\ [][NextSubCounters]_vars

----------------------------------------------------------------------------
(* SpecTimer: the periodic tick and the pause button, under a wall clock    *)
(* that may be set back between two samples.  A tick runs while the         *)
(* accumulated time stays within -MaxElapsed..MaxElapsed.                   *)

TickInRange(t) ==
    IF activeProject = NoProject THEN TRUE
    ELSE updateTimerFn(activeProject.timer, t).totalElapsedMs \in (0 - MaxElapsed)..MaxElapsed

NextTimer ==
    \/ \E t \in Times : TickInRange(t) /\ updateTimer(t)
    \/ NoModal /\ Room /\ \E t \in Times : toggleTimerPause(t)
    \/ NoModal /\ Room /\ \E t \in Times : saveProjectClick(t)
    \/ putSucceeds
    \/ putFails
    \/ \E t \in Times : getAllSucceeds(t)
    \/ getAllFails

SpecTimer == Init /\ [][NextTimer]_vars

\* C6: a tick of a running timer never adds a negative amount:
\* totalElapsedMs does not decrease and is not negative afterwards.
C6_TickNeverSubtracts ==
    [][(activeProject # NoProject /\ lastOp'.op = "updateTimer") =>
          /\ activeProject'.timer.totalElapsedMs >= activeProject.timer.totalElapsedMs
          /\ activeProject'.timer.totalElapsedMs >= 0]_vars

\* with a clock that is not set back the ticks only add
C6_ForwardTicksOnlyAdd ==
    [][(activeProject # NoProject /\ lastOp'.op = "updateTimer"
            /\ lastOp'.arg >= activeProject.timer.lastTick) =>
          /\ activeProject'.timer.totalElapsedMs >= activeProject.timer.totalElapsedMs]_vars

\* the step is a tick, or a click on the pause button, with a project active
Ticks == lastOp'.op = "updateTimer" /\ activeProject # NoProject
TogglesPause == lastOp'.op = "toggleTimerPause" /\ activeProject # NoProject

\* the last step resumed the timer
Resumed ==
    /\ lastOp.op = "toggleTimerPause"
    /\ lastOp.pre # NoProject
    /\ activeProject # NoProject
    /\ lastOp.pre.timer.isPaused
    /\ ~activeProject.timer.isPaused

\* C24: a tick of a paused timer leaves the timer as it is; resuming sets
\* lastTick to the time of the click and leaves totalElapsedMs; a tick of a
\* running timer adds the time since lastTick, so the tick that follows a
\* resume adds the time since the resume.
C24_PausedTimeIsNotCounted ==
    [][/\ (Ticks /\ activeProject.timer.isPaused) => activeProject'.timer = activeProject.timer
       /\ (Ticks /\ ~activeProject.timer.isPaused) =>
              activeProject'.timer.totalElapsedMs =
                  activeProject.timer.totalElapsedMs + (lastOp'.arg - activeProject.timer.lastTick)
       /\ (TogglesPause /\ activeProject.timer.isPaused) =>
              /\ ~activeProject'.timer.isPaused
              /\ activeProject'.timer.lastTick = lastOp'.arg
              /\ activeProject'.timer.totalElapsedMs = activeProject.timer.totalElapsedMs
       /\ (Resumed /\ Ticks) =>
              activeProject'.timer.totalElapsedMs =
                  activeProject.timer.totalElapsedMs + (lastOp'.arg - lastOp.arg)]_vars

\* a timer that was paused is resumed after its last sample: lastTick is the
\* time of the resume, totalElapsedMs is what it was
C24_Witness ==
    /\ Resumed
    /\ lastOp.arg > lastOp.pre.timer.lastTick
    /\ activeProject.timer.lastTick = lastOp.arg
    /\ activeProject.timer.totalElapsedMs = lastOp.pre.timer.totalElapsedMs

\* the step makes a project active through setActiveProject
Activates ==
    /\ activeProject' # NoProject
    /\ activeProject' # activeProject
    /\ IF lastOp'.op = "handleConfirmationProceed"
       THEN lastOp'.arg.action \in {"loadProject", "startNewProject"}
       ELSE lastOp'.op \in {"getAllSucceeds", "loadProject", "startNewProject",
                            "deleteProjectCurrent"}

\* the projects setActiveProject can be given: a stored or listed one, or a
\* fresh one
Activatable ==
    store \cup {savedProjects[i] : i \in 1..Len(savedProjects)}
          \cup {createDefaultProject(t) : t \in Times}

\* C25: the project made active is the given one with lastTick set to a
\* clock sample of that step when its timer runs, and a tick of a running
\* timer adds the time since lastTick, which is never a sample of an
\* earlier session.
C25_ActivationResamplesLastTick ==
    [][/\ (Activates /\ ~activeProject'.timer.isPaused) =>
              \E q \in Activatable, t \in Times :
                  activeProject' = [q EXCEPT !.timer.lastTick = t]
       /\ (Ticks /\ ~activeProject.timer.isPaused) =>
              /\ activeProject.timer.lastTick \in Times
              /\ activeProject'.timer.totalElapsedMs =
                     activeProject.timer.totalElapsedMs + (lastOp'.arg - activeProject.timer.lastTick)]_vars

\* StoredProject, last sampled at StoredTime, was made active one unit
\* after StoredTime and ticked one unit later: one unit was added
C25_Witness ==
    /\ lastOp.op = "updateTimer"
    /\ lastOp.pre = [StoredProject EXCEPT !.timer.lastTick = StoredTime + 1]
    /\ lastOp.arg = StoredTime + 2
    /\ activeProject.timer.totalElapsedMs = 1
    /\ StoredProject \in store

----------------------------------------------------------------------------
(* Properties of the counters and the increment history (SpecCounter) *)

HistoryOf(p, counterId) == SelectSeq(p.incrementHistory, LAMBDA h : h.counterId = counterId)
HistoryOfOthers(p, counterId) == SelectSeq(p.incrementHistory, LAMBDA h : h.counterId # counterId)

\* the handler named op ran last, on an active project
Ran(op) == lastOp.op = op /\ lastOp.pre # NoProject

\* the value, before the last handler, of the counter that it addressed
PreValue == counterAt(lastOp.pre, findCounter(lastOp.pre, lastOp.arg)).value

\* C1: every counter's value is >= 0 in every reachable state, and
\* decrementCounter on a counter whose value is 0 leaves the value at 0.
C1_ValueNeverNegative ==
    /\ activeProject # NoProject =>
          \A i \in 1..Len(Counters(activeProject)) : Counters(activeProject)[i].value >= 0
    /\ (Ran("decrementCounter") /\ findCounter(lastOp.pre, lastOp.arg) # 0) =>
          (PreValue = 0 => ValueOf(lastOp.arg) = 0)

C1_Witness ==
    /\ Ran("decrementCounter")
    /\ findCounter(lastOp.pre, lastOp.arg) > 1
    /\ PreValue = 0
    /\ ValueOf(lastOp.arg) = 0
    /\ activeProject.mainCounter.value > 0

\* C4: decrementCounter(id) removes at most one history entry; a removed
\* entry has counterId = id and no later entry has it; the entries of the
\* other counters stay; with the counter's value at 0 the history is unchanged.
C4_DecrementRemovesLastEntry ==
    Ran("decrementCounter") =>
        LET id == lastOp.arg
            h0 == lastOp.pre.incrementHistory
            h1 == activeProject.incrementHistory
        IN  /\ \/ h1 = h0
               \/ \E k \in 1..Len(h0) :
                     /\ h1 = RemoveAt(h0, k)
                     /\ h0[k].counterId = id
                     /\ \A j \in (k + 1)..Len(h0) : h0[j].counterId # id
            /\ HistoryOfOthers(activeProject, id) = HistoryOfOthers(lastOp.pre, id)
            /\ (findCounter(lastOp.pre, id) # 0 /\ PreValue = 0) => h1 = h0

\* a decrement that took the last of two entries of its counter, with an
\* entry of another counter in the history
C4_Witness ==
    /\ Ran("decrementCounter")
    /\ Len(HistoryOf(lastOp.pre, lastOp.arg)) = 2
    /\ Len(HistoryOf(activeProject, lastOp.arg)) = 1
    /\ HistoryOf(lastOp.pre, lastOp.arg)[1].timestamp # HistoryOf(lastOp.pre, lastOp.arg)[2].timestamp
    /\ HistoryOfOthers(lastOp.pre, lastOp.arg) # <<>>

\* C5: after resetCounter(id) on an existing counter the history has no entry
\* with counterId = id, the counter's value is 0, and the entries of all other
\* counters are as before.
C5_ResetPurgesHistory ==
    (Ran("resetCounter") /\ findCounter(lastOp.pre, lastOp.arg) # 0) =>
        /\ HistoryOf(activeProject, lastOp.arg) = <<>>
        /\ ValueOf(lastOp.arg) = 0
        /\ activeProject.incrementHistory = HistoryOfOthers(lastOp.pre, lastOp.arg)

C5_Witness ==
    /\ Ran("resetCounter")
    /\ findCounter(lastOp.pre, lastOp.arg) # 0
    /\ Len(HistoryOf(lastOp.pre, lastOp.arg)) = 2
    /\ HistoryOfOthers(lastOp.pre, lastOp.arg) # <<>>
    /\ activeProject.incrementHistory # <<>>

\* the continuation of 'delete-sub-counter' ran last, on an active project
RanDeleteSubCounter ==
    /\ Ran("handleConfirmationProceed")
    /\ lastOp.arg.action = "deleteSubCounter"

\* C26: after deleteSubCounter(id) no sub-counter has that id and no history
\* entry has counterId = id, the other counters and the entries of the other
\* counters are as before; in every state every history entry has the id of
\* a counter of the project.
C26_DeletePurgesHistory ==
    /\ RanDeleteSubCounter =>
          LET id == lastOp.arg.id
          IN  /\ findCounter(activeProject, id) = 0
              /\ HistoryOf(activeProject, id) = <<>>
              /\ activeProject.mainCounter = lastOp.pre.mainCounter
              /\ activeProject.subCounters = SelectSeq(lastOp.pre.subCounters, LAMBDA c : c.id # id)
              /\ activeProject.incrementHistory = HistoryOfOthers(lastOp.pre, id)
    /\ activeProject # NoProject =>
          \A k \in 1..Len(activeProject.incrementHistory) :
              findCounter(activeProject, activeProject.incrementHistory[k].counterId) # 0

\* a sub-counter with counted rows was deleted; the rows of the main
\* counter are still in the history
C26_Witness ==
    /\ RanDeleteSubCounter
    /\ findCounter(lastOp.pre, lastOp.arg.id) > 1
    /\ HistoryOf(lastOp.pre, lastOp.arg.id) # <<>>
    /\ HistoryOf(lastOp.pre, MainId) # <<>>
    /\ activeProject.incrementHistory = HistoryOf(lastOp.pre, MainId)

\* C27: incrementCounter(id) on an existing counter adds 1 to that counter's
\* value and appends one entry with counterId = id to the history; the other
\* counters and the earlier entries stay.  For an id of no counter the
\* counters and the history stay.
C27_IncrementAddsOneAndRecords ==
    Ran("incrementCounter") =>
        LET id == lastOp.arg
            ref == findCounter(lastOp.pre, id)
            h0 == lastOp.pre.incrementHistory
            h1 == activeProject.incrementHistory
        IN  IF ref # 0
            THEN /\ Counters(activeProject) = [Counters(lastOp.pre) EXCEPT ![ref].value = @ + 1]
                 /\ Len(h1) = Len(h0) + 1
                 /\ SubSeq(h1, 1, Len(h0)) = h0
                 /\ h1[Len(h1)].counterId = id
                 /\ h1[Len(h1)].timestamp \in Times
            ELSE /\ Counters(activeProject) = Counters(lastOp.pre)
                 /\ h1 = h0

\* a row of a sub-counter was counted after a row of the main counter
C27_Witness ==
    /\ Ran("incrementCounter")
    /\ findCounter(lastOp.pre, lastOp.arg) > 1
    /\ lastOp.pre.incrementHistory # <<>>
    /\ ValueOf(lastOp.arg) = PreValue + 1
    /\ activeProject.mainCounter.value > 0
    /\ Len(activeProject.incrementHistory) = Len(lastOp.pre.incrementHistory) + 1

\* incrementCounter ran with an id of no counter
C27_UnknownId ==
    /\ Ran("incrementCounter")
    /\ findCounter(lastOp.pre, lastOp.arg) = 0
    /\ lastOp.pre.incrementHistory # <<>>

\* the ids of the counters of p are pairwise distinct
DistinctIds(p) ==
    \A i, j \in 1..Len(Counters(p)) : Counters(p)[i].id = Counters(p)[j].id => i = j

\* C35: while the counters of the active project have distinct ids, the
\* number of history entries with a counter's id is that counter's value.
C35_HistoryCountsValue ==
    (activeProject # NoProject /\ DistinctIds(activeProject)) =>
        \A i \in 1..Len(Counters(activeProject)) :
            Len(HistoryOf(activeProject, Counters(activeProject)[i].id))
                = Counters(activeProject)[i].value

\* a row was taken back from a sub-counter with two rows, the main counter
\* having a row
C35_Witness ==
    /\ Ran("decrementCounter")
    /\ findCounter(lastOp.pre, lastOp.arg) > 1
    /\ PreValue = 2
    /\ ValueOf(lastOp.arg) = 1
    /\ Len(HistoryOf(activeProject, lastOp.arg)) = 1
    /\ Len(HistoryOf(activeProject, MainId)) = activeProject.mainCounter.value
    /\ activeProject.mainCounter.value > 0

----------------------------------------------------------------------------
(* Numbers of type double, as calculateETA uses them.  A non-negative       *)
(* double is m * 2^e: m is the significand in binary, most significant bit  *)
(* first, without leading or trailing zero bits, at most MantissaBits long; *)
(* zero has the empty significand.  The arithmetic works on numerals of     *)
(* LimbBits-bit digits; a quotient is developed GuardBits bits past the     *)
(* significand before it is rounded to nearest, ties to even.               *)

MantissaBits == 53
GuardBits == 2
LimbBits == 12
IntBits == 30

Zero == [m |-> <<>>, e |-> 0]

RECURSIVE Power2(_)
Power2(k) ==
    IF k = 0 THEN 1
    ELSE LET h == Power2(k \div 2) IN IF k % 2 = 0 THEN h * h ELSE 2 * h * h

\* the binary numeral of an integer 0 <= n < 2^IntBits
BitsOf(n) ==
    LET len == CHOOSE l \in 0..IntBits : n < Power2(l) /\ (l = 0 \/ n >= Power2(l - 1))
    IN  [k \in 1..len |-> (n \div Power2(len - k)) % 2]

RECURSIVE NatOf(_)
NatOf(bits) ==
    IF Len(bits) = 0 THEN 0
    ELSE IF Len(bits) = 1 THEN bits[1]
    ELSE LET h == Len(bits) \div 2
         IN  NatOf(SubSeq(bits, 1, h)) * Power2(Len(bits) - h) + NatOf(SubSeq(bits, h + 1, Len(bits)))

Zeros(k) == [i \in 1..k |-> 0]

\* the first and the last position of bit b in a numeral that has one
First(bits, b) == CHOOSE k \in 1..Len(bits) : bits[k] = b /\ \A j \in 1..(k - 1) : bits[j] # b
Last(bits, b) == CHOOSE k \in 1..Len(bits) : bits[k] = b /\ \A j \in (k + 1)..Len(bits) : bits[j] # b
Has(bits, b) == \E k \in 1..Len(bits) : bits[k] = b

LeadingOne(bits) == IF Has(bits, 1) THEN SubSeq(bits, First(bits, 1), Len(bits)) ELSE <<>>

Canonical(bits, e) ==
    IF Has(bits, 1)
    THEN LET last == Last(bits, 1) IN [m |-> SubSeq(bits, 1, last), e |-> e + (Len(bits) - last)]
    ELSE Zero

PlusOne(bits) ==
    IF Has(bits, 0)
    THEN LET z == Last(bits, 0)
         IN  [k \in 1..Len(bits) |-> IF k < z THEN bits[k] ELSE IF k = z THEN 1 ELSE 0]
    ELSE <<1>> \o Zeros(Len(bits))

\* bits * 2^e, plus a non-zero amount below the last bit when sticky,
\* rounded to the nearest double, ties to even
RoundToDouble(bits, e, sticky) ==
    IF Len(bits) <= MantissaBits THEN Canonical(bits, e)
    ELSE LET keep == SubSeq(bits, 1, MantissaBits)
             guard == bits[MantissaBits + 1]
             rest == sticky \/ \E k \in (MantissaBits + 2)..Len(bits) : bits[k] = 1
             up == guard = 1 /\ (rest \/ keep[MantissaBits] = 1)
         IN  Canonical(IF up THEN PlusOne(keep) ELSE keep, e + (Len(bits) - MantissaBits))

Double(n) == Canonical(BitsOf(n), 0)

\* a binary numeral as a numeral of LimbBits-bit digits, and back
Limbs(bits) ==
    LET n == (Len(bits) + LimbBits - 1) \div LimbBits
        padded == Zeros(n * LimbBits - Len(bits)) \o bits
    IN  [j \in 1..n |-> NatOf(SubSeq(padded, LimbBits * (j - 1) + 1, LimbBits * j))]

BitsOfLimbs(limbs) ==
    [k \in 1..(LimbBits * Len(limbs)) |->
        (limbs[(k - 1) \div LimbBits + 1] \div Power2(LimbBits - 1 - ((k - 1) % LimbBits))) % 2]

\* long division of a numeral by a small integer d, from digit i on
RECURSIVE LongDivision(_, _, _, _)
LongDivision(limbs, i, d, rem) ==
    IF i > Len(limbs) THEN [q |-> <<>>, r |-> rem]
    ELSE LET cur == rem * Power2(LimbBits) + limbs[i]
             rest == LongDivision(limbs, i + 1, d, cur % d)
         IN  [q |-> <<cur \div d>> \o rest.q, r |-> rest.r]

\* x / d for a double x >= 0 and an integer d > 0
DivideBy(x, d) ==
    IF x = Zero THEN Zero
    ELSE LET extra == MantissaBits + GuardBits + Len(BitsOf(d)) - Len(x.m)
             qr == LongDivision(Limbs(x.m \o Zeros(extra)), 1, d, 0)
         IN  RoundToDouble(LeadingOne(BitsOfLimbs(qr.q)), x.e - extra, qr.r # 0)

\* the numeral of limbs[1..i] * r + carry
RECURSIVE MultiplyLimbs(_, _, _, _)
MultiplyLimbs(limbs, i, r, carry) ==
    IF i = 0 THEN Limbs(BitsOf(carry))
    ELSE LET v == limbs[i] * r + carry
         IN  Append(MultiplyLimbs(limbs, i - 1, r, v \div Power2(LimbBits)), v % Power2(LimbBits))

\* r * x for an integer r >= 0 and a double x >= 0
Multiply(r, x) ==
    IF r = 0 \/ x = Zero THEN Zero
    ELSE LET limbs == Limbs(x.m)
         IN  RoundToDouble(LeadingOne(BitsOfLimbs(MultiplyLimbs(limbs, Len(limbs), r, 0))),
                           x.e, FALSE)

\* Math.ceil of a double x >= 0 below 2^IntBits
Ceil(x) ==
    IF x = Zero THEN 0
    ELSE IF x.e >= 0 THEN NatOf(x.m) * Power2(x.e)
    ELSE LET k == Len(x.m) + x.e
         IN  IF k <= 0 THEN 1 ELSE NatOf(SubSeq(x.m, 1, k)) + 1

----------------------------------------------------------------------------
(* calculateETA.  The text it returns is a tuple of its pieces: <<>> is     *)
(* null, <<"ETA: ~", 5, " min">> is `ETA: ~${minutes} min`.                 *)

MinuteMs == 60000
HourMinutes == 60

NoEta == <<>>
NoAvg == [null |-> TRUE]

\* Array.prototype.sort with (a, b) => a.timestamp - b.timestamp (stable)
RECURSIVE SortByTimestamp(_)
SortByTimestamp(s) ==
    IF Len(s) <= 1 THEN s
    ELSE LET front == SortByTimestamp(SubSeq(s, 1, Len(s) - 1))
             x == s[Len(s)]
             k == Cardinality({i \in 1..Len(front) : front[i].timestamp <= x.timestamp})
         IN  SubSeq(front, 1, k) \o <<x>> \o SubSeq(front, k + 1, Len(front))

computeAvgTimePerIncrement(p, incArr) ==
    IF Len(incArr) = 0 THEN NoAvg
    ELSE LET totalTime == p.timer.totalElapsedMs
             totalIncrements == Len(incArr)
         IN  IF totalTime > 0 /\ totalIncrements > 0
             THEN DivideBy(Double(totalTime), totalIncrements)
             ELSE NoAvg

\* the counter-specific average, or else the global one
avgTimePerIncrement(p, counter) ==
    LET incrementsForCounter ==
            SortByTimestamp(SelectSeq(p.incrementHistory, LAMBDA h : h.counterId = counter.id))
        globalIncrements == SortByTimestamp(p.incrementHistory)
        specific == computeAvgTimePerIncrement(p, incrementsForCounter)
    IN  IF specific = NoAvg THEN computeAvgTimePerIncrement(p, globalIncrements) ELSE specific

\* formatETA with the below-one-minute text up to one minute
formatETA_UpToOneMinute(minutes) ==
    IF minutes <= 1 THEN <<"ETA: < 1 min">>
    ELSE IF minutes < HourMinutes THEN <<"ETA: ~", minutes, " min">>
    ELSE <<"ETA: ~", minutes \div HourMinutes, "h ", minutes % HourMinutes, "m">>

formatETA(minutes) ==
    IF minutes < 1 THEN <<"ETA: < 1 min">>
    ELSE IF minutes < HourMinutes THEN <<"ETA: ~", minutes, " min">>
    ELSE <<"ETA: ~", minutes \div HourMinutes, "h ", minutes % HourMinutes, "m">>

etaOf(p, counter, avg) ==
    LET remainingIncrements == counter.target[1] - counter.value
        etaMs == Multiply(remainingIncrements, avg)
    IN  formatETA(Ceil(DivideBy(etaMs, MinuteMs)))

\* calculateETA without the test of the history's length, an empty series
\* counted as one increment
calculateETA_EmptySeriesAsOne(p, counter) ==
    IF ~Truthy(counter.target) THEN NoEta
    ELSE IF counter.target[1] <= counter.value THEN NoEta
    ELSE IF p = NoProject THEN NoEta
    ELSE LET avg == avgTimePerIncrement(p, counter)
         IN  IF avg # NoAvg THEN etaOf(p, counter, avg)
             ELSE IF p.timer.totalElapsedMs > 0
             THEN etaOf(p, counter, Double(p.timer.totalElapsedMs))
             ELSE NoEta

\* calculateETA with counter.target < counter.value for the first test
calculateETA_TargetBelowValue(p, counter) ==
    IF ~Truthy(counter.target) THEN NoEta
    ELSE IF counter.target[1] < counter.value THEN NoEta
    ELSE IF p = NoProject THEN NoEta
    ELSE IF Len(p.incrementHistory) = 0 THEN NoEta
    ELSE LET avg == avgTimePerIncrement(p, counter)
         IN  IF avg = NoAvg THEN NoEta ELSE etaOf(p, counter, avg)

calculateETA(p, counter) ==
    IF ~Truthy(counter.target) THEN NoEta
    ELSE IF counter.target[1] <= counter.value THEN NoEta
    ELSE IF p = NoProject THEN NoEta
    ELSE IF Len(p.incrementHistory) = 0 THEN NoEta
    ELSE LET avg == avgTimePerIncrement(p, counter)
         IN  IF avg = NoAvg THEN NoEta ELSE etaOf(p, counter, avg)

----------------------------------------------------------------------------
(* SpecETA: a fresh installation.  The session starts at EtaStart; targets  *)
(* are set and sub-counters added before the first row is counted, MaxSetup *)
(* sub-counters and targets in all; at most MaxRows rows are counted before *)
(* the first tick, and the tick finds one of the EtaElapsed times elapsed.  *)

MaxRows == 5
MaxSetup == 3
EtaStart == StoredTime + 1
EtaElapsed == {40000, 59999, 60000, 60001, 100000}
EtaTargets == {<<0>>, <<2>>, <<10>>, <<30>>}

InitETA ==
    /\ Init
    /\ store = {}
    /\ lastProjectId = NullId
    /\ lastProjectUnsaved = FALSE

\* the clock: a millisecond passes with every sub-counter added
EtaNow == IF activeProject = NoProject THEN EtaStart
          ELSE EtaStart + Len(activeProject.subCounters)

Rows == IF activeProject = NoProject THEN 0 ELSE Len(activeProject.incrementHistory)
Elapsed == IF activeProject = NoProject THEN 0 ELSE activeProject.timer.totalElapsedMs
Untimed == activeProject # NoProject /\ Elapsed = 0 /\ NoModal

\* the sub-counters added and the targets set
SetupDone ==
    Len(activeProject.subCounters)
        + Cardinality({i \in 1..(1 + Len(activeProject.subCounters)) :
                          Counters(activeProject)[i].target # NoTarget})

EtaSetup ==
    \/ /\ Untimed /\ Rows = 0
       /\ Len(activeProject.subCounters) < MaxSubs /\ SetupDone < MaxSetup
       /\ addSubCounter(EtaNow)
    \/ \E counterId \in CounterIds :
          /\ Untimed /\ Rows = 0
          /\ findCounter(activeProject, counterId) # 0
          /\ SetupDone < MaxSetup \/ Truthy(counterAt(activeProject, findCounter(activeProject, counterId)).target)
          /\ toggleTarget(counterId, EtaNow)
    \/ \E newTargetValue \in EtaTargets :
          activeModal = "setTarget" /\ handleSetTargetProceed(newTargetValue, EtaNow)

EtaRows ==
    \E counterId \in CounterIds :
        /\ Untimed /\ Rows < MaxRows
        /\ findCounter(activeProject, counterId) # 0
        /\ incrementCounter(counterId, EtaNow)

EtaTicks == \E d \in EtaElapsed : Untimed /\ updateTimer(EtaStart + d)

NextETA ==
    \/ getAllSucceeds(EtaStart)
    \/ EtaSetup
    \/ EtaRows
    \/ EtaTicks

SpecETA == InitETA /\ [][NextETA]_vars

----------------------------------------------------------------------------
(* SpecETA properties *)

ActiveCounters ==
    IF activeProject = NoProject THEN {}
    ELSE {Counters(activeProject)[i] : i \in 1..(1 + Len(activeProject.subCounters))}

Eta(c) == calculateETA(activeProject, c)

\* the counter has a target above its value
Unmet(c) == IF c.target = NoTarget THEN FALSE ELSE c.target[1] > c.value

\* the series of the estimate: the counter's own entries if there are any,
\* otherwise all entries
SeriesLength(c) ==
    IF Len(HistoryOf(activeProject, c.id)) > 0 THEN Len(HistoryOf(activeProject, c.id))
    ELSE Rows

CeilingOf(a, b) == (a + b - 1) \div b

\* ceil((target - value) * totalElapsedMs / n / 60000) in exact arithmetic
ExactMinutes(c) == CeilingOf((c.target[1] - c.value) * Elapsed, SeriesLength(c) * MinuteMs)

MinutesOf(text) ==
    IF Len(text) = 3 THEN text[2]
    ELSE IF Len(text) = 5 THEN text[2] * HourMinutes + text[4]
    ELSE 0

\* the etaMs of a counter that gets an estimate
EtaMsIs(c, ms) ==
    /\ Unmet(c) /\ Rows > 0 /\ Elapsed > 0
    /\ Multiply(c.target[1] - c.value, avgTimePerIncrement(activeProject, c)) = Double(ms)

BelowOneMinute == <<"ETA: < 1 min">>
OneMinute == <<"ETA: ~", 1, " min">>

\* C7: with an empty increment history a counter whose target is above its
\* value gets no estimate, whatever time has elapsed.
C7_EmptyHistoryNoEstimate ==
    \A c \in ActiveCounters : (Rows = 0 /\ Unmet(c)) => Eta(c) = NoEta

C7_Witness ==
    \E c \in ActiveCounters : Rows = 0 /\ Unmet(c) /\ Elapsed > 0 /\ Eta(c) = NoEta

\* C8: a counter without a target, or with a target at or below its value,
\* gets no estimate, whatever the history and the timer are.
C8_NoEstimateWithoutUnmetTarget ==
    \A c \in ActiveCounters : ~Unmet(c) => Eta(c) = NoEta

C8_Witness ==
    \E c \in ActiveCounters :
        /\ Truthy(c.target) /\ c.target[1] <= c.value
        /\ Len(HistoryOf(activeProject, c.id)) > 0 /\ Elapsed > 0
        /\ Eta(c) = NoEta

\* C9 as stated: an etaMs of 59999 gives the below-one-minute text and an
\* etaMs of 60000 the one-minute text.
C9_BelowOneMinuteAt59999 ==
    \A c \in ActiveCounters :
        /\ EtaMsIs(c, MinuteMs - 1) => Eta(c) = BelowOneMinute
        /\ EtaMsIs(c, MinuteMs) => Eta(c) = OneMinute

\* C9: an etaMs of 59999 and an etaMs of 60000 both give the one-minute
\* text, and no estimate of a counter with rows left is the below-one-minute
\* text.
C9_OneMinuteUpTo60000 ==
    \A c \in ActiveCounters :
        /\ EtaMsIs(c, MinuteMs - 1) => Eta(c) = OneMinute
        /\ EtaMsIs(c, MinuteMs) => Eta(c) = OneMinute
        /\ Unmet(c) => Eta(c) # BelowOneMinute

C9_Witness ==
    \E c \in ActiveCounters : EtaMsIs(c, MinuteMs - 1) /\ Eta(c) = OneMinute

\* C10: once time has elapsed, a counter with a target above its value and a
\* non-empty history gets an estimate whose minute count is
\* ceil((target - value) * totalElapsedMs / n / 60000), n the length of the
\* counter's own series or else of the whole history.
C10_MinutesAreTheExactCeiling ==
    \A c \in ActiveCounters :
        (Unmet(c) /\ Rows > 0 /\ Elapsed > 0) =>
            (Eta(c) # NoEta /\ MinutesOf(Eta(c)) = ExactMinutes(c))

\* the example of C10: 5 main increments, 40000 ms elapsed and target 10
\* give one minute
C10_Example ==
    \A c \in ActiveCounters :
        (c.id = MainId /\ c.value = 5 /\ c.target = <<10>> /\ Elapsed = 40000
            /\ Len(HistoryOf(activeProject, MainId)) = 5) => Eta(c) = OneMinute

C10_ExampleReached ==
    \E c \in ActiveCounters :
        c.id = MainId /\ c.value = 5 /\ c.target = <<10>> /\ Elapsed = 40000

----------------------------------------------------------------------------
(* SpecDelete properties *)

IdsOf(st) == {q.id : q \in st}

\* the step in which handleProjectDeletion(projectId) resumes with the
\* refreshed list while projectId is the active project
DeletionOfActiveEnds ==
    /\ lastOp'.op = "getAllSucceeds" /\ Head(pending).cont = "delete"
    /\ activeProject # NoProject /\ activeProject.id = Head(pending).id

C19_DeletedProjectStaysDeleted ==
    [][\A id \in StoredIds : id \notin IdsOf(store) => id \notin IdsOf(store')]_vars

\* C20: when the delete request fails, an error toast is shown and the
\* active project and the cached list stay as they are.
C20_FailedDeleteIsNotified ==
    [][lastOp'.op = "deleteFails"
          => (/\ toast'.visible /\ toast'.type = "error"
              /\ activeProject' = activeProject /\ savedProjects' = savedProjects)]_vars

\* the failed delete changes nothing at all
C20_FailedDeleteChangesNothing ==
    [][lastOp'.op = "deleteFails"
          => UNCHANGED <<activeProject, savedProjects, isDirty, toast, store, activeModal>>]_vars

----------------------------------------------------------------------------
(* Writes in flight under SpecSync *)

\* the step is the success of a put of the active project, whose name is
\* not blank
ActivePutSucceeds ==
    /\ lastOp'.op = "putSucceeds"
    /\ Persisted
    /\ Trim(activeProject.name) # ""
    /\ Head(pending).project.id = activeProject.id

\* C28: the puts of the active project resolve oldest first, each replaces
\* the stored record, and the newest carries the project as the last
\* mutation left it: when the last put in flight has succeeded, the stored
\* record is the project in memory.
C28_LastWriteWins ==
    [][ActivePutSucceeds =>
          LET puts == PutsInFlight(activeProject.id)
          IN  /\ Head(pending) = puts[1]
              /\ puts[1].project \in store'
              /\ \A q \in store' : q.id = activeProject.id => q = puts[1].project
              /\ puts[Len(puts)].project = activeProject
              /\ Len(puts) = 1 => activeProject' \in store']_vars

\* of two puts in flight the first has succeeded: the store holds the
\* project as the first mutation left it, the put of the second is pending
C28_Witness ==
    /\ lastOp.op = "putSucceeds"
    /\ Persisted
    /\ lastOp.arg = activeProject.id
    /\ Len(PutsInFlight(activeProject.id)) = 1
    /\ PutsInFlight(activeProject.id)[1].project = activeProject
    /\ \E q \in store :
          /\ q.id = activeProject.id
          /\ q # activeProject
          /\ q # StoredProject
          /\ q.lastModified <= activeProject.lastModified

\* both puts have succeeded: the store holds the project in memory
C28_BothLanded ==
    /\ lastOp.op = "putSucceeds"
    /\ Persisted
    /\ issued = MaxRequests
    /\ PutsInFlight(activeProject.id) = <<>>
    /\ activeProject \in store
    /\ Edits(activeProject) = MaxEdits

\* C29: a put that fails is dropped, no request is issued for it and the
\* store and the project in memory stay; the put of a later mutation or save
\* carries the whole project in memory, so that once it has succeeded as the
\* last put in flight the stored record is the project in memory.
C29_NextWriteCarriesEverything ==
    [][/\ lastOp'.op = "putFails" =>
              /\ pending' = Tail(pending)
              /\ UNCHANGED <<store, activeProject>>
       /\ (ActivePutSucceeds /\ Len(PutsInFlight(activeProject.id)) = 1) =>
              /\ Head(pending).project = activeProject
              /\ store' = saveProject(store, activeProject)
              /\ activeProject' = activeProject]_vars

\* the first autosave of a stored project failed, the autosave of a second
\* mutation has succeeded: the store holds the project in memory
C29_Witness ==
    /\ lastOp.op = "putSucceeds"
    /\ Persisted
    /\ toast = Toast("Error saving project.", "error")
    /\ pending = <<GetAllRequest("save", activeProject.id)>>
    /\ lastProjectId = activeProject.id
    /\ store = {activeProject}
    /\ activeProject.lastModified > StoredProject.lastModified

\* C34: an active project with an id is in the store, or its write is
\* still in flight.
C34_IdMeansStored ==
    Persisted =>
        \/ activeProject.id \in IdsOf(store)
        \/ PutsInFlight(activeProject.id) # <<>>

----------------------------------------------------------------------------
(* Startup under SpecSync *)

\* C21: when the fetch of the saved projects fails during startup, startup
\* ends with an active project.
C21_FailedStartupHasActiveProject ==
    (lastOp.op = "getAllFails" /\ lastOp.arg = "initial") => activeProject # NoProject

----------------------------------------------------------------------------
(* The dirty flag under SpecCounter and SpecSync *)

\* the step is a mutation command: a counter, sub-counter, timer or field
\* command, or the continuation of 'delete-sub-counter'
MutatesProject ==
    IF lastOp'.op = "handleConfirmationProceed"
    THEN lastOp'.arg.action = "deleteSubCounter"
    ELSE lastOp'.op \in {"incrementCounter", "decrementCounter", "resetCounter",
                         "addSubCounter", "toggleTimerPause", "updateProjectProperty",
                         "updateCounterProperty", "handleSetTargetProceed"}

Ephemeral == activeProject # NoProject /\ activeProject.id = NullId

\* C23: a mutation command that changes an active project without id
\* leaves isDirty true, and markDirty on a dirty project changes nothing.
C23_EphemeralMutationMarksDirty ==
    [][(MutatesProject /\ Ephemeral /\ activeProject' # activeProject)
          => /\ isDirty'
             /\ isDirty => UNCHANGED <<isDirty, pending>>
             /\ \A dirty \in BOOLEAN : markDirty(markDirty(dirty)) = markDirty(dirty)]_vars

\* a row was counted on a project without id that was dirty already
C23_Witness ==
    /\ lastOp.op = "incrementCounter"
    /\ lastOp.pre # NoProject
    /\ lastOp.pre.id = NullId
    /\ lastOp.preDirty
    /\ activeProject.id = NullId
    /\ activeProject.mainCounter.value = lastOp.pre.mainCounter.value + 1
    /\ isDirty

----------------------------------------------------------------------------
(* Properties of SpecDialog *)

Completions == {"putSucceeds", "deleteSucceeds", "getAllSucceeds"}

Quiet == UNCHANGED <<activeProject, activeIdx, store, isDirty, pending>>

\* C13 as stated: from the step that opens a confirmation dialog until its
\* continuation runs, no step changes the active project, which project is
\* active, the store or the dirty flag.
C13_NothingChangesWhileAsked ==
    [][Asked /\ lastOp'.op # "handleConfirmationProceed"
          => UNCHANGED <<activeProject, activeIdx, store, isDirty>>]_vars

\* C13 amended: the step that opens a confirmation dialog, and every step
\* taken while it is open other than its continuation and the completion of
\* a request issued before, changes none of the active project, which
\* project is active, the store, the dirty flag and the request queue; in
\* particular closing the dialog issues no request.
C13_DialogStepsMutateNothing ==
    [][(\/ ~Asked /\ activeModal' = "confirm"
        \/ Asked /\ lastOp'.op \notin Completions \cup {"handleConfirmationProceed"})
          => Quiet]_vars

\* the dialog of 'delete-project-current' was closed: the project is still
\* active and stored, no request is in flight
C13_Witness ==
    /\ lastOp.op = "closeModal"
    /\ confirmationContext.action = "deleteProjectCurrent"
    /\ activeProject # NoProject
    /\ activeProject.id = StoredTime
    /\ lastOp.pre = activeProject
    /\ StoredTime \in IdsOf(store)
    /\ pending = <<>>

\* C14: with unsaved changes, 'load-project' and 'start-new-project' leave
\* the active project and the dirty flag as they are and open the
\* confirmation dialog.
C14_DirtyLoadAsksFirst ==
    [][(isDirty /\ lastOp'.op \in {"loadProject", "startNewProject"})
          => /\ activeProject' = activeProject
             /\ activeIdx' = activeIdx
             /\ isDirty'
             /\ activeModal' = "confirm"
             /\ confirmationContext'.action = lastOp'.op]_vars

\* a project with counted rows and unsaved changes is still active after
\* 'load-project' was clicked
C14_Witness ==
    /\ lastOp.op = "loadProject"
    /\ lastOp.preDirty
    /\ Asked
    /\ activeProject = lastOp.pre
    /\ activeProject.id = NullId
    /\ activeProject.mainCounter.value > 0

\* the step belongs to the deletion of a project that is not the active one:
\* the continuation that issues the delete, the success of the delete or the
\* refetch that ends handleProjectDeletion
DeletesOther ==
    /\ activeProject # NoProject
    /\ \/ /\ lastOp'.op = "handleConfirmationProceed"
          /\ confirmationContext.action = "deleteProject"
          /\ confirmationContext.id # activeProject.id
       \/ /\ lastOp'.op = "deleteSucceeds"
          /\ Head(pending).id # activeProject.id
       \/ /\ lastOp'.op = "getAllSucceeds"
          /\ Head(pending).cont = "delete"
          /\ Head(pending).id # activeProject.id

\* C36: the deletion of a project other than the active one leaves the
\* active project, the dirty flag and the localStorage entries as they are;
\* the delete removes that project from the store and nothing else, the
\* refetch leaves the store.
C36_DeletingOtherKeepsActive ==
    [][DeletesOther =>
          /\ UNCHANGED <<activeProject, isDirty, lastProjectId, lastProjectUnsaved>>
          /\ store' = IF lastOp'.op = "deleteSucceeds"
                      THEN deleteProject(store, Head(pending).id) ELSE store]_vars

\* the saved project was deleted from the list while a project without id,
\* with a counted row and unsaved changes, was and is active
C36_Witness ==
    /\ lastOp.op = "getAllSucceeds"
    /\ lastOp.arg = "delete"
    /\ lastOp.pre = activeProject
    /\ lastOp.preDirty /\ isDirty
    /\ activeProject.id = NullId
    /\ activeProject.mainCounter.value > 0
    /\ store = {}
    /\ savedProjects = <<>>
    /\ toast = Toast("Project deleted.", "success")

\* C33: the success of a put of a project other than the active one leaves
\* a set dirty flag set.
C33_SaveClearsOnlyItsProject ==
    [][(/\ lastOp'.op = "putSucceeds"
        /\ activeProject # NoProject
        /\ Head(pending).project.id # activeProject.id
        /\ isDirty)
          => isDirty']_vars

\* C15: 'delete-project-current' by itself never replaces or resets the
\* active project, persisted or not.
C15_ClearAsksFirst ==
    [][lastOp'.op = "deleteProjectCurrent" => activeProject' = activeProject]_vars

----------------------------------------------------------------------------
(* Properties of SpecAutosave *)

MutationCommands ==
    {"incrementCounter", "decrementCounter", "resetCounter", "addSubCounter",
     "handleConfirmationProceed", "toggleTimerPause", "updateProjectProperty",
     "updateCounterProperty"}

\* the step appends one put of the project as the step leaves it
WritesActiveProject ==
    /\ Len(pending') = Len(pending) + 1
    /\ pending'[Len(pending')] = PutRequest(activeProject', TRUE)

\* the step is an input event of a counter's name field
RenamesCounter ==
    IF lastOp'.op = "updateCounterProperty" THEN lastOp'.arg[2] = "name" ELSE FALSE

\* C16: every mutation command that changes a persisted active project
\* issues a put of that project, the renaming of a counter included.
C16_EveryMutationIsWritten ==
    [][(lastOp'.op \in MutationCommands /\ Persisted /\ activeProject' # activeProject)
          => WritesActiveProject]_vars

\* C16 without the renaming: every mutation command other than the change
\* of a counter's name field issues a put of the project it leaves.
C16_AllButRenameAreWritten ==
    [][(/\ lastOp'.op \in MutationCommands
        /\ ~RenamesCounter
        /\ Persisted /\ activeProject' # activeProject)
          => WritesActiveProject]_vars

\* a target is absent or an integer >= 1
ValidTarget(target) == target = NoTarget \/ target[1] >= 1

\* C22: every counter of the active project has no target or a target of at
\* least 1.
C22_TargetsAreAbsentOrPositive ==
    activeProject # NoProject
        => \A i \in 1..Len(Counters(activeProject)) : ValidTarget(Counters(activeProject)[i].target)

----------------------------------------------------------------------------
(* Properties of SpecRestart *)

\* the step is the startup that follows a reload
StartsAfterRestart ==
    /\ lastOp.op = "restart"
    /\ lastOp'.op = "getAllSucceeds"
    /\ Head(pending).cont = "initial"

\* the project that was active at the reload has an id and is in the store
WasPersisted == lastOp.pre # NoProject /\ lastOp.pre.id # NullId /\ lastOp.pre.id \in IdsOf(store)

\* C17: the startup after a reload makes the project active that was active
\* at the reload, when that project had an id and is still in the store.
C17_RestartRestoresPersisted ==
    [][(StartsAfterRestart /\ WasPersisted) => activeProject'.id = lastOp.pre.id]_vars

\* C17 for a project made active by setActiveProject: the startup restores
\* the project whose id localStorage holds.
C17_RestartRestoresActivated ==
    [][(StartsAfterRestart /\ WasPersisted
            /\ lastProjectId = lastOp.pre.id /\ ~lastProjectUnsaved)
          => activeProject'.id = lastOp.pre.id]_vars

\* the step is a startup: the fetch of loadInitialProject succeeds
StartsUp == lastOp'.op = "getAllSucceeds" /\ Head(pending).cont = "initial"

\* localStorage names no project of the store
NothingToRestore ==
    lastProjectUnsaved \/ lastProjectId = NullId \/ lastProjectId \notin IdsOf(store)

C30_RecordedIdNotStored ==
    /\ pending = <<GetAllRequest("initial", NullId)>>
    /\ lastProjectId # NullId
    /\ lastProjectId \notin IdsOf(store)

\* C32: a startup with a saved project in the store makes the saved
\* project active that was modified last.
C32_StartupOpensNewestSaved ==
    [][(StartsUp /\ store # {}) =>
          /\ activeProject'.id \in IdsOf(store)
          /\ \A q \in store : activeProject'.lastModified >= q.lastModified]_vars

----------------------------------------------------------------------------
(* Properties of SpecSubCounters *)

\* C31: the ids of the sub-counters of the active project are pairwise
\* distinct and none is the id of the main counter.
C31_SubCounterIdsAreUnique ==
    activeProject # NoProject =>
        LET subs == activeProject.subCounters
        IN  /\ \A i \in 1..Len(subs) : subs[i].id # MainId
            /\ \A i, j \in 1..Len(subs) : subs[i].id = subs[j].id => i = j

============================================================================
